---------------------------- MODULE Spec2Model ----------------------------
(***************************************************************************)
(* Model of evaluation.cpp: the weighted test evaluator evaluate(), its    *)
(* reference oracle reference_solution(), the sample candidate             *)
(* solution_func() and the harness that calls evaluate().                  *)
(***************************************************************************)
EXTENDS Integers, Sequences, FiniteSets, TLC

(***************************************************************************)
(* Native int of the platform: 32-bit two's complement.                    *)
(***************************************************************************)
INT_MAX == 2147483647
INT_MIN == -INT_MAX - 1

(***************************************************************************)
(* Literals of the test table built by evaluate().                         *)
(***************************************************************************)
LargeCount == 100000
LargeFill == 7
LargeLast == -7654321
Weight1 == 10
Weight2 == 30
Weight3 == 60

(***************************************************************************)
(* Bounds of the model.                                                    *)
(***************************************************************************)
MaxCalls == 2       \* evaluate() calls the harness makes with one candidate
MaxLen == 3         \* longest drawn input of the reference oracle

(***************************************************************************)
(* std::vector<int>.  A vector is kept as the list of its runs of equal    *)
(* elements, [count, value] with count >= 1 and neighbouring runs of       *)
(* different values, so that equal vectors are equal lists; Elements gives *)
(* the elements one by one, as operator[] reads them.                      *)
(***************************************************************************)
EmptyVector == <<>>

(* std::vector<int>(count, value) *)
FillVector(count, value) ==
    IF count = 0 THEN EmptyVector ELSE <<[count |-> count, value |-> value]>>

push_back(v, x) ==
    IF Len(v) > 0 /\ v[Len(v)].value = x
    THEN [v EXCEPT ![Len(v)].count = @ + 1]
    ELSE Append(v, [count |-> 1, value |-> x])

(* std::vector<int>{e1, ..., en} *)
RECURSIVE ListVector(_)
ListVector(elems) ==
    IF elems = <<>> THEN EmptyVector
    ELSE push_back(ListVector(SubSeq(elems, 1, Len(elems) - 1)), elems[Len(elems)])

RECURSIVE Elements(_)
Elements(v) ==
    IF v = <<>> THEN <<>>
    ELSE [k \in 1..v[1].count |-> v[1].value] \o Elements(Tail(v))

(***************************************************************************)
(* reference_solution: int sum = 0; for (i < size) sum += input_vector[i]. *)
(* One loop iteration on the accumulator st = [sum, ub]: signed overflow   *)
(* of sum += x is undefined behaviour; ub records that it happened and sum *)
(* then carries the value a wrapping build produces.                       *)
(***************************************************************************)
AddOverflows(sum, x) ==
    \/ x > 0 /\ sum > INT_MAX - x
    \/ x < 0 /\ sum < INT_MIN - x

WrapAdd(sum, x) ==
    IF x > 0 /\ sum > INT_MAX - x THEN (sum + INT_MIN) + (x + INT_MIN)
    ELSE IF x < 0 /\ sum < INT_MIN - x THEN (sum - INT_MIN) + (x - INT_MIN)
    ELSE sum + x

SumStep(st, x) ==
    IF AddOverflows(st.sum, x)
    THEN [sum |-> WrapAdd(st.sum, x), ub |-> TRUE]
    ELSE [sum |-> st.sum + x, ub |-> st.ub]

(* The loop over elements lo..hi, left to right, from accumulator st.      *)
(* The recursion halves the index range only to keep its depth small (the  *)
(* test on left makes the left half be computed before the right half is   *)
(* entered); the elements are still added one by one in index order.       *)
RECURSIVE SumLoop(_, _, _, _)
SumLoop(elems, lo, hi, st) ==
    IF lo > hi THEN st
    ELSE IF lo = hi THEN SumStep(st, elems[lo])
    ELSE LET mid == (lo + hi) \div 2
             left == SumLoop(elems, lo, mid, st)
         IN  IF left.ub \in BOOLEAN
             THEN SumLoop(elems, mid + 1, hi, left)
             ELSE left

(* Mutants: the loop misses the last element; the loop starts at index 1.   *)
reference_solution_SkipLast(input_vector) ==
    LET elems == Elements(input_vector)
    IN  SumLoop(elems, 1, Len(elems) - 1, [sum |-> 0, ub |-> FALSE])

reference_solution_SkipFirst(input_vector) ==
    LET elems == Elements(input_vector)
    IN  SumLoop(elems, 2, Len(elems), [sum |-> 0, ub |-> FALSE])

reference_solution(input_vector) ==
    LET elems == Elements(input_vector)
    IN  SumLoop(elems, 1, Len(elems), [sum |-> 0, ub |-> FALSE])

(* What a call of reference_solution can produce: its sum, or, once a      *)
(* signed overflow happened, either the wrapped sum or a trap (a build     *)
(* with overflow trapping aborts; the call does not return).               *)
NoCall == [returns |-> FALSE, value |-> 0]

Returned(v) == [returns |-> TRUE, value |-> v]

RefResults(r) ==
    IF r.ub THEN {Returned(r.sum), NoCall} ELSE {Returned(r.sum)}

(***************************************************************************)
(* The test table evaluate() builds (lines 65-77).                         *)
(***************************************************************************)
large_test_vector == push_back(FillVector(LargeCount, LargeFill), LargeLast)

TestVectors ==
    << ListVector(<<>>), ListVector(<<1, 2, 3, 4, 5, -6, -7>>), large_test_vector >>

TestValues == <<Weight1, Weight2, Weight3>>

InputIds == 1..Len(TestVectors)

(* reference_solution is pure: its result on the vectors of the table is   *)
(* computed once and looked up; any other argument is computed on the spot.*)
ReferenceOnTable == [k \in InputIds |-> reference_solution(TestVectors[k])]

(* Which vector of the table a vector is; 0 when it is none of them.       *)
InputIdOf(input_vector) ==
    LET ids == {k \in InputIds : TestVectors[k] = input_vector}
    IN  IF ids = {} THEN 0 ELSE CHOOSE k \in ids : TRUE

RefOutcomes(input_vector) ==
    LET id == InputIdOf(input_vector)
    IN  IF id \in InputIds
        THEN RefResults(ReferenceOnTable[id])
        ELSE RefResults(reference_solution(input_vector))

(***************************************************************************)
(* Candidates: pointers to int f(std::vector<int>).  A candidate is       *)
(* opaque; on each test input it returns an int or does not return        *)
(* (throws, aborts, loops), and it may write to the vector it received.    *)
(***************************************************************************)
CandValues == {0, 2, LargeCount * LargeFill + LargeLast, -8}

CandResults == {Returned(v) : v \in CandValues} \cup {NoCall}

Candidates == [InputIds -> CandResults]

(* int solution_func(std::vector<int>) { return 0; } *)
solution_func == [k \in InputIds |-> Returned(0)]

CandidateApply(f, input_vector) == f[InputIdOf(input_vector)]

(* The parameter object after the candidate ran: untouched or written to.  *)
ArgAfterCall(input_vector) == {input_vector, push_back(input_vector, 1)}

(* The caller's vector after a call that left `written` in its parameter:  *)
(* the parameter is a std::vector<int> by value, a copy.                   *)
(* Mutant: the parameter is a reference to the caller's vector.            *)
ByReference(callers, written) == written

ByValue(callers, written) == callers

(* Line 84: int pass = (candidate's result == reference's result).         *)
(* Mutants: the comparison is inverted; every case passes.                 *)
Pass_Inverted(c, r) == IF c # r THEN 1 ELSE 0

Pass_Always(c, r) == 1

Pass(c, r) == IF c = r THEN 1 ELSE 0

(* Line 85: candidate_score += pass * test_value.  Both accumulators are   *)
(* int; with the table's weights they never exceed 100, far inside int.    *)
(* Mutants: the weight is forgotten; the weight is subtracted.             *)
ScoreAfter_NoWeight(candidate_score_, pass, test_value_) == candidate_score_ + pass

ScoreAfter_Minus(candidate_score_, pass, test_value_) ==
    candidate_score_ - pass * test_value_

ScoreAfter(candidate_score_, pass, test_value_) ==
    candidate_score_ + pass * test_value_

(* Line 86: max_score += test_value.                                       *)
(* Mutant: the maximum grows only on a pass.                               *)
MaxAfter_OnPass(max_score_, pass, test_value_) == max_score_ + pass * test_value_

MaxAfter(max_score_, pass, test_value_) == max_score_ + test_value_

(* Line 81: i++.  Mutant: the loop steps by two.                           *)
NextIndex_ByTwo(i_) == i_ + 2

NextIndex(i_) == i_ + 1

(***************************************************************************)
(* Inputs drawn for direct calls of reference_solution.                    *)
(***************************************************************************)
RefElems == {INT_MAX, INT_MIN, -1, 1, LargeFill}

RECURSIVE SeqsUpTo(_, _)
SeqsUpTo(S, n) ==
    IF n = 0 THEN {<<>>}
    ELSE LET shorter == SeqsUpTo(S, n - 1)
         IN  shorter \cup {Append(s, x) : s \in shorter, x \in S}

RefInputs ==
    {ListVector(s) : s \in SeqsUpTo(RefElems, MaxLen)} \cup {TestVectors[k] : k \in InputIds}

(***************************************************************************)
(* State.  pc is the position of the program: "main" (outside evaluate),   *)
(* "loop" (the for test of line 81), "compare" (inside line 84), "hung"    *)
(* (a candidate call that does not return), "aborted" (a trap), and        *)
(* "driver"/"driver_done" for a direct call of reference_solution.         *)
(* order lists the calls line 84 has made for the current case, each with  *)
(* the table index of the vector passed; processed lists the cases whose   *)
(* weights this call has accumulated; results lists the pairs evaluate has *)
(* returned so far.                                                        *)
(***************************************************************************)
VARIABLES pc, test_vectors, test_values, candidate_score, max_score, i,
          test_vector, test_value, cand_arg, cand_ret, ref_arg, ref_ret,
          order, processed, candidate_solution, score, results

vars == <<pc, test_vectors, test_values, candidate_score, max_score, i,
          test_vector, test_value, cand_arg, cand_ret, ref_arg, ref_ret,
          order, processed, candidate_solution, score, results>>

Called(who) == \E k \in 1..Len(order) : order[k].who = who

Call(who, input_vector) == [who |-> who, input |-> InputIdOf(input_vector)]

Locals ==
    /\ test_vectors = EmptyVector
    /\ test_values = <<>>
    /\ candidate_score = 0
    /\ max_score = 0
    /\ i = 0
    /\ test_vector = EmptyVector
    /\ test_value = 0
    /\ cand_arg = EmptyVector
    /\ cand_ret = NoCall
    /\ ref_ret = NoCall
    /\ order = <<>>
    /\ processed = <<>>
    /\ score = <<>>
    /\ results = <<>>

(* main() before evaluate(solution_func); any candidate may be submitted.  *)
Init ==
    /\ pc = "main"
    /\ candidate_solution \in Candidates
    /\ ref_arg = EmptyVector
    /\ Locals

(* Mutant: the two accumulators are static, zeroed once.                   *)
CallEvaluate_Static ==
    /\ pc = "main"
    /\ Len(results) < MaxCalls
    /\ test_vectors' = TestVectors
    /\ test_values' = TestValues
    /\ i' = 0
    /\ order' = <<>>
    /\ processed' = <<>>
    /\ pc' = "loop"
    /\ UNCHANGED <<candidate_score, max_score, test_vector, test_value, cand_arg,
                   cand_ret, ref_arg, ref_ret, candidate_solution, score, results>>

(* Entry of evaluate: lines 65-80 build the table and zero both sums.      *)
CallEvaluate ==
    /\ pc = "main"
    /\ Len(results) < MaxCalls
    /\ test_vectors' = TestVectors
    /\ test_values' = TestValues
    /\ candidate_score' = 0
    /\ max_score' = 0
    /\ i' = 0
    /\ order' = <<>>
    /\ processed' = <<>>
    /\ pc' = "loop"
    /\ UNCHANGED <<test_vector, test_value, cand_arg, cand_ret, ref_arg, ref_ret,
                   candidate_solution, score, results>>

(* Lines 81-83: the loop test holds; copy the case's vector and weight.    *)
LoopBody ==
    /\ pc = "loop"
    /\ i < Len(test_vectors)
    /\ test_vector' = test_vectors[i + 1]
    /\ test_value' = test_values[i + 1]
    /\ order' = <<>>
    /\ cand_ret' = NoCall
    /\ ref_ret' = NoCall
    /\ pc' = "compare"
    /\ UNCHANGED <<test_vectors, test_values, candidate_score, max_score, i,
                   cand_arg, ref_arg, processed, candidate_solution, score,
                   results>>

(* Line 84, left operand: candidate_solution(test_vector).  The parameter  *)
(* is a copy of test_vector; the candidate may write to it.                *)
CallCandidate ==
    /\ pc = "compare"
    /\ ~Called("candidate")
    /\ cand_arg' \in ArgAfterCall(test_vector)
    /\ test_vector' = ByValue(test_vector, cand_arg')
    /\ cand_ret' = CandidateApply(candidate_solution, test_vector)
    /\ pc' = IF cand_ret'.returns THEN "compare" ELSE "hung"
    /\ order' = Append(order, Call("candidate", test_vector))
    /\ UNCHANGED <<test_vectors, test_values, candidate_score, max_score, i,
                   test_value, ref_arg, ref_ret, processed, candidate_solution,
                   score, results>>

(* Line 84, right operand: reference_solution(test_vector), on its own     *)
(* copy.  The two operands of == are evaluated in an unspecified order.    *)
CallReference ==
    /\ pc = "compare"
    /\ ~Called("reference")
    /\ ref_arg' = test_vector
    /\ ref_ret' \in RefOutcomes(ref_arg')
    /\ pc' = IF ref_ret'.returns THEN "compare" ELSE "aborted"
    /\ order' = Append(order, Call("reference", test_vector))
    /\ UNCHANGED <<test_vectors, test_values, candidate_score, max_score, i,
                   test_vector, test_value, cand_arg, cand_ret, processed,
                   candidate_solution, score, results>>

(* Lines 84-87: pass, both accumulations, i++; the locals of the body and  *)
(* the two parameter copies are gone at the end of the iteration.          *)
UpdateScores ==
    /\ pc = "compare"
    /\ Called("candidate") /\ Called("reference")
    /\ LET pass == Pass(cand_ret.value, ref_ret.value)
       IN  /\ candidate_score' = ScoreAfter(candidate_score, pass, test_value)
           /\ max_score' = MaxAfter(max_score, pass, test_value)
    /\ processed' = Append(processed, i + 1)
    /\ i' = NextIndex(i)
    /\ test_vector' = EmptyVector
    /\ cand_arg' = EmptyVector
    /\ ref_arg' = EmptyVector
    /\ pc' = "loop"
    /\ UNCHANGED <<test_vectors, test_values, test_value, cand_ret, ref_ret,
                   order, candidate_solution, score, results>>

(* Line 88 and line 96: the loop test fails; the pair is returned by value *)
(* and the table is destroyed.                                             *)
Return ==
    /\ pc = "loop"
    /\ ~(i < Len(test_vectors))
    /\ score' = <<candidate_score, max_score>>
    /\ results' = Append(results, score')
    /\ test_vectors' = <<>>
    /\ test_values' = <<>>
    /\ pc' = "main"
    /\ UNCHANGED <<candidate_score, max_score, i, test_vector, test_value,
                   cand_arg, cand_ret, ref_arg, ref_ret, order, processed,
                   candidate_solution>>

Step ==
    \/ LoopBody
    \/ CallCandidate
    \/ CallReference
    \/ UpdateScores
    \/ Return

Next ==
    \/ CallEvaluate
    \/ Step

Spec == Init /\ [][Next]_vars

(* A sequential program: a step that can be taken inside evaluate is taken.*)
FairSpec == Spec /\ WF_vars(Step)

(***************************************************************************)
(* A direct call of reference_solution on a drawn input.                   *)
(***************************************************************************)
InitRef ==
    /\ pc = "driver"
    /\ candidate_solution = solution_func
    /\ ref_arg \in RefInputs
    /\ Locals

ReferenceCall ==
    /\ pc = "driver"
    /\ ref_ret' \in RefResults(reference_solution(ref_arg))
    /\ pc' = IF ref_ret'.returns THEN "driver_done" ELSE "aborted"
    /\ UNCHANGED <<test_vectors, test_values, candidate_score, max_score, i,
                   test_vector, test_value, cand_arg, cand_ret, ref_arg, order,
                   processed, candidate_solution, score, results>>

NextRef == ReferenceCall

SpecRef == InitRef /\ [][NextRef]_vars

(***************************************************************************)
(* Exact integer arithmetic for the properties: a number n is the pair     *)
(* [hi, lo] with n = hi * 2^16 + lo and 0 <= lo < 2^16, so that sums of    *)
(* 32-bit ints are computed without any 32-bit overflow.                   *)
(***************************************************************************)
Base == 2 ^ 16

Wide(n) == [hi |-> n \div Base, lo |-> n % Base]

WideAdd(a, b) ==
    [hi |-> a.hi + b.hi + (a.lo + b.lo) \div Base, lo |-> (a.lo + b.lo) % Base]

WideLeq(a, b) == a.hi < b.hi \/ (a.hi = b.hi /\ a.lo <= b.lo)

WideMin(a, b) == IF WideLeq(a, b) THEN a ELSE b

WideMax(a, b) == IF WideLeq(a, b) THEN b ELSE a

FitsInt(a) == WideLeq(Wide(INT_MIN), a) /\ WideLeq(a, Wide(INT_MAX))

(* The int a wide number is, when it fits. *)
WideToInt(a) == a.hi * Base + a.lo

(* A wide number reduced mod 2^32 into the signed range. *)
WideWrap(a) ==
    LET h == a.hi % Base
    IN  WideToInt([hi |-> IF h >= Base \div 2 THEN h - Base ELSE h, lo |-> a.lo])

(* n times a, by doubling. *)
RECURSIVE WideTimes(_, _)
WideTimes(n, a) ==
    IF n = 0 THEN Wide(0)
    ELSE IF n % 2 = 0
         THEN LET half == WideTimes(n \div 2, a) IN WideAdd(half, half)
         ELSE WideAdd(a, WideTimes(n - 1, a))

(* Of a vector whose elements follow a part of exact sum `before`: the     *)
(* exact sum up to its end, and the least and greatest exact sums of the   *)
(* prefixes that end inside it.  Inside a run of equal elements the prefix *)
(* sums are monotonic, so their extremes are at the run's two ends.        *)
RECURSIVE PrefixSums(_, _)
PrefixSums(vector, before) ==
    IF vector = <<>>
    THEN [sum |-> before.sum, least |-> before.least, greatest |-> before.greatest]
    ELSE LET first == WideAdd(before.sum, Wide(vector[1].value))
             last == WideAdd(before.sum, WideTimes(vector[1].count, Wide(vector[1].value)))
         IN  PrefixSums(Tail(vector),
                        [sum |-> last,
                         least |-> WideMin(before.least, WideMin(first, last)),
                         greatest |-> WideMax(before.greatest, WideMax(first, last))])

(* The empty prefix has sum 0. *)
AllPrefixSums(vector) ==
    PrefixSums(vector, [sum |-> Wide(0), least |-> Wide(0), greatest |-> Wide(0)])

ExactSum(vector) == AllPrefixSums(vector).sum

NoPartialOverflow(vector) ==
    FitsInt(AllPrefixSums(vector).least) /\ FitsInt(AllPrefixSums(vector).greatest)

(* The exact sums of the three vectors of the table. *)
TableSums == [k \in InputIds |-> ExactSum(TestVectors[k])]

TableFits == [k \in InputIds |-> NoPartialOverflow(TestVectors[k])]

RECURSIVE WeightOf(_)
WeightOf(cases) ==
    IF cases = {} THEN 0
    ELSE LET k == CHOOSE c \in cases : TRUE
         IN  TestValues[k] + WeightOf(cases \ {k})

(* The candidate's output on case k is the exact sum of the case's input.  *)
Matches(f, k) == f[k].returns /\ Wide(f[k].value) = TableSums[k]

MatchedAmong(f, cases) == {k \in cases : Matches(f, k)}

InEvaluate == pc \in {"loop", "compare", "hung"}

HasReturned == pc = "main" /\ Len(results) > 0

(***************************************************************************)
(* Properties.                                                             *)
(***************************************************************************)

(* C1: the achieved score is the sum of the weights of exactly the cases   *)
(* on which the candidate's output equals the exact sum of the case's      *)
(* input: while evaluate runs, candidate_score is that sum over the cases  *)
(* processed so far (each adds its full weight or nothing, the empty case  *)
(* like the others), and the first component returned is that sum over the *)
(* whole table.                                                            *)
C1_ScoreIsMatchedWeight ==
    /\ InEvaluate =>
          candidate_score = WeightOf(MatchedAmong(candidate_solution, 1..i))
    /\ HasReturned =>
          score[1] = WeightOf(MatchedAmong(candidate_solution, InputIds))

C1_Witness ==
    /\ HasReturned
    /\ MatchedAmong(candidate_solution, InputIds) = {1, 3}
    /\ score[1] = Weight1 + Weight3

(* C2: the second component returned is the sum of all weights, 100, for   *)
(* every candidate, and while evaluate runs max_score is the sum of the    *)
(* weights of the cases processed so far, whatever the candidate returned. *)
C2_MaxIsWeightSum ==
    /\ InEvaluate => max_score = WeightOf(1..i)
    /\ HasReturned => score[2] = WeightOf(InputIds) /\ score[2] = 100

C2_Witness ==
    /\ HasReturned
    /\ candidate_solution # solution_func
    /\ MatchedAmong(candidate_solution, InputIds) = {2}
    /\ score[2] = 100

(* C3: 0 <= candidate_score <= max_score in every state of evaluate        *)
(* (before the loop, after each case) and for every returned pair.         *)
C3_ScoreWithinMax ==
    /\ 0 <= candidate_score /\ candidate_score <= max_score
    /\ \A n \in 1..Len(results) : 0 <= results[n][1] /\ results[n][1] <= results[n][2]
    /\ score # <<>> => 0 <= score[1] /\ score[1] <= score[2]

C3_Witness ==
    /\ pc = "loop"
    /\ i = 2
    /\ 0 < candidate_score
    /\ candidate_score < max_score

(* C4 as stated: on the three cases the reference returns 0, -8 and        *)
(* 692345679, and solution_func (always 0) is scored (10, 100).            *)
C4_Original ==
    /\ (pc = "compare" /\ Called("reference")) =>
          ref_ret = Returned(<<0, -8, 692345679>>[i + 1])
    /\ (HasReturned /\ candidate_solution = solution_func) => score = <<10, 100>>

(* C4, amended: on the three cases the reference returns 0, 2             *)
(* (1+2+3+4+5-6-7) and -6954321 (100000 * 7 - 7654321), and solution_func  *)
(* (always 0) is scored (10, 100), only the empty case matching.           *)
C4_Amended ==
    /\ (pc = "compare" /\ Called("reference")) =>
          ref_ret = Returned(<<0, 2, -6954321>>[i + 1])
    /\ (HasReturned /\ candidate_solution = solution_func) =>
          /\ score = <<10, 100>>
          /\ MatchedAmong(candidate_solution, InputIds) = {1}

C4_Witness ==
    /\ HasReturned
    /\ candidate_solution = solution_func
    /\ score = <<10, 100>>
    /\ ref_ret = Returned(-6954321)

(* C5: a candidate whose output equals the reference's on every test input *)
(* is returned score == max_score, the sum of all weights.                 *)
C5_CorrectCandidateScoresMax ==
    (HasReturned /\ \A k \in InputIds : Matches(candidate_solution, k)) =>
        score[1] = score[2] /\ score[2] = WeightOf(InputIds)

C5_Witness ==
    /\ HasReturned
    /\ \A k \in InputIds : Matches(candidate_solution, k)
    /\ score = <<100, 100>>

(* C6: a candidate whose every output differs from every reference output *)
(* on the test inputs is returned an achieved score of 0, with max_score   *)
(* the full sum of weights.                                                *)
C6_WrongCandidateScoresZero ==
    (HasReturned /\ \A k, j \in InputIds :
                        Wide(candidate_solution[k].value) # TableSums[j]) =>
        score = <<0, WeightOf(InputIds)>>

C6_Witness ==
    /\ HasReturned
    /\ \A k, j \in InputIds : Wide(candidate_solution[k].value) # TableSums[j]
    /\ score = <<0, 100>>

(* C7: successive calls of evaluate with the same candidate return the     *)
(* same pair, and no state is carried from one call to the next: each call *)
(* enters its loop with the table rebuilt and both accumulators at 0.      *)
C7_Idempotent ==
    /\ \A a, b \in 1..Len(results) : results[a] = results[b]
    /\ (pc = "loop" /\ i = 0) =>
          /\ candidate_score = 0
          /\ max_score = 0
          /\ processed = <<>>
          /\ test_vectors = TestVectors
          /\ test_values = TestValues

C7_Witness ==
    /\ HasReturned
    /\ Len(results) >= 2
    /\ results[1] = results[2]
    /\ results[2][1] > 0

(* C9, the safety part: cases are processed in table order, each once; in  *)
(* each case the candidate and the reference are each called at most once, *)
(* with that case's input, and both have been called before the            *)
(* accumulators are updated; evaluate returns after the last case.         *)
C9_InOrderOnce ==
    /\ InEvaluate =>
          /\ Len(processed) = i
          /\ \A k \in 1..i : processed[k] = k
    /\ pc \in {"compare", "hung"} =>
          /\ Len(order) <= 2
          /\ \A a, b \in 1..Len(order) : order[a].who = order[b].who => a = b
          /\ \A a \in 1..Len(order) : order[a].input = i + 1
    /\ (pc = "loop" /\ i > 0) =>
          /\ Called("candidate") /\ Called("reference")
          /\ Len(order) = 2
          /\ \A a \in 1..Len(order) : order[a].input = i
    /\ HasReturned => processed = <<1, 2, 3>>

(* C9 as stated: as above, and in each case the candidate is called first  *)
(* and the reference after it.                                             *)
C9_Original ==
    /\ C9_InOrderOnce
    /\ Called("reference") => order[1].who = "candidate"

(* C9, amended: cases are processed strictly in table order, each exactly  *)
(* once; for each case the candidate and the reference are each called     *)
(* once with that case's input, in either order, before either accumulator *)
(* is updated; and evaluate returns after the third case whenever every    *)
(* candidate invocation returns.                                           *)
C9_Amended ==
    /\ []C9_InOrderOnce
    /\ (pc = "loop" /\ i = 0 /\ \A k \in InputIds : candidate_solution[k].returns)
          ~> (HasReturned /\ processed = <<1, 2, 3>>)

C9_Witness ==
    /\ HasReturned
    /\ processed = <<1, 2, 3>>
    /\ order[1].who = "reference"
    /\ order[2].who = "candidate"

(* C10: whatever the candidate writes to the vector it received, the table *)
(* keeps the values it was built with, the case's vector and weight in     *)
(* evaluate stay those of the table, and the reference receives exactly    *)
(* the table's input of the case.                                          *)
C10_TableUntouched ==
    /\ InEvaluate => test_vectors = TestVectors /\ test_values = TestValues
    /\ pc \in {"compare", "hung"} =>
          /\ test_vector = TestVectors[i + 1]
          /\ test_value = TestValues[i + 1]
    /\ (pc = "compare" /\ Called("reference")) => ref_arg = TestVectors[i + 1]

C10_Witness ==
    /\ pc = "compare"
    /\ i = 2
    /\ Len(order) = 2
    /\ order[1].who = "candidate"
    /\ cand_arg # test_vector
    /\ ref_arg = TestVectors[3]

=============================================================================
